---- MODULE Spec2Model ----
(***************************************************************************)
(* Model of the ESS night-charging optimizer                               *)
(* (energy_storage_optimizer.py, alpha_ess_manager.py).                    *)
(*                                                                         *)
(* One run of optimize_charging_schedule: the fetched prices and the       *)
(* configuration are the inputs, find_optimal_charging_windows and         *)
(* is_charging_profitable are evaluated as the code evaluates them (in     *)
(* binary floating point, left-to-right sums, strict "<" when tracking the *)
(* best candidate), the command is built and handed to                     *)
(* AlphaESSManager.set_charging_schedule, which retries the remote call.   *)
(***************************************************************************)
EXTENDS Integers, Sequences, FiniteSets, TLC

(***************************************************************************)
(* Bounds of the model.                                                    *)
(***************************************************************************)
\* Python floats are IEEE doubles (53-bit significand); the model keeps the
\* same rounding rule on a narrower significand.
MantissaBits == 9
\* The smallest positive float of the model is 2^-FracBits.
FracBits == 8
\* The fetched price series has 7..MaxLen entries.
MaxLen == 8
\* charge_to_full ranges over -NegHours..MaxHours.
NegHours == 2
MaxHours == 8

(***************************************************************************)
(* Program constants.                                                      *)
(***************************************************************************)
NIGHT_HOURS == 7
MAX_ATTEMPTS == 3
MIDNIGHT == "00:00"

(***************************************************************************)
(* Floating point.  A float is an integer number of units of 2^-FracBits;  *)
(* every operation rounds the exact result to the nearest value with a     *)
(* MantissaBits-bit significand, ties to even.                             *)
(***************************************************************************)
Pow2(n) == 2 ^ n

One == Pow2(FracBits)

\* float('inf'): above every finite value that arises within the bounds.
Inf == Pow2(30)

\* The unit in the last place of n/d: the least power of two u, from u up,
\* with n/d < 2^MantissaBits * u; t is 2^MantissaBits * d.
RECURSIVE Ulp(_, _, _)
Ulp(n, t, u) == IF n < t * u THEN u ELSE Ulp(n, t, 2 * u)

\* n/d (n >= 0, d > 0) rounded to nearest, ties to even.
RoundNearestEven(n, d) ==
    LET u  == Ulp(n, Pow2(MantissaBits) * d, 1)
        q  == n \div (d * u)
        r  == n - q * d * u
        up == 2 * r > d * u \/ (2 * r = d * u /\ q % 2 = 1)
    IN  (IF up THEN q + 1 ELSE q) * u

Fl(n, d) ==
    LET nn == IF d < 0 THEN -n ELSE n
        dd == IF d < 0 THEN -d ELSE d
    IN  IF nn < 0 THEN -RoundNearestEven(-nn, dd) ELSE RoundNearestEven(nn, dd)

\* inf plus a finite float is inf.
FAdd(a, b) == IF a = Inf \/ b = Inf THEN Inf ELSE Fl(a + b, 1)

\* a / k for an int k # 0 (the int converts to float exactly).
FDiv(a, k) == Fl(a, k)

\* inf times a positive float is inf.
FMul(a, b) == IF a = Inf \/ b = Inf THEN Inf ELSE Fl(a * b, One)

(***************************************************************************)
(* Python built-ins used by the code.                                      *)
(***************************************************************************)
\* range(a, b) as a sequence.
Range(a, b) == IF b > a THEN [i \in 1..(b - a) |-> a + i - 1] ELSE << >>

\* Index normalisation of s[a:b].
SliceIndex(i, len) ==
    IF i < 0 THEN (IF len + i < 0 THEN 0 ELSE len + i)
    ELSE (IF i > len THEN len ELSE i)

\* s[a:b]
Slice(s, a, b) ==
    LET lo == SliceIndex(a, Len(s))
        hi == SliceIndex(b, Len(s))
    IN  IF hi > lo THEN [i \in 1..(hi - lo) |-> s[lo + i]] ELSE << >>

\* sum(w): starts from 0 and adds left to right; SumTo(w, k) is the running
\* total after k elements.
RECURSIVE SumTo(_, _)
SumTo(w, k) == IF k = 0 THEN 0 ELSE FAdd(SumTo(w, k - 1), w[k])

Sum(w) == SumTo(w, Len(w))

RECURSIVE Flatten(_)
Flatten(ss) == IF ss = << >> THEN << >> ELSE Head(ss) \o Flatten(Tail(ss))

\* f"{n:02d}": sign, digits, zero-padded to width 2.
Digit(d) == << "0", "1", "2", "3", "4", "5", "6", "7", "8", "9" >>[d + 1]

Format02d(n) ==
    IF n < 0
    THEN (IF -n < 10 THEN "-" \o Digit(-n)
          ELSE "-" \o Digit((-n) \div 10) \o Digit((-n) % 10))
    ELSE Digit((n \div 10) % 10) \o Digit(n % 10)

\* f"{n:02d}:00"
HourString(n) == Format02d(n) \o ":00"

(***************************************************************************)
(* EnergyStorageOptimizer.find_optimal_charging_windows                    *)
(***************************************************************************)
\* The guard of the ValueError.
ExceedsNightOffByOne(hours_to_charge) == hours_to_charge > NIGHT_HOURS + 1

ExceedsNight(hours_to_charge) == hours_to_charge > NIGHT_HOURS

NightPrices(ps) == Slice(ps, 0, NIGHT_HOURS)

\* First loop: one candidate per start, in loop order.
SingleStartsShort(h) == Range(0, NIGHT_HOURS - h)

SingleStarts(h) == Range(0, NIGHT_HOURS - h + 1)

SingleCandidates(h) ==
    LET starts == SingleStarts(h)
    IN  [i \in 1..Len(starts) |-> << << starts[i], starts[i] + h >> >>]

\* Second loop nest: window1_size, start1, start2, in loop order.
Window1Sizes(h) == Range(1, h)

Start1Range(w1) == Range(0, NIGHT_HOURS - w1 + 1)

Start2RangeOverlapping(end1, w2) == Range(end1 - 1, NIGHT_HOURS - w2 + 1)

Start2Range(end1, w2) == Range(end1, NIGHT_HOURS - w2 + 1)

SplitAt(w1, s1, h) ==
    LET w2  == h - w1
        s2s == Start2Range(s1 + w1, w2)
    IN  [k \in 1..Len(s2s) |-> << << s1, s1 + w1 >>, << s2s[k], s2s[k] + w2 >> >>]

SplitOfSize(w1, h) ==
    LET s1s == Start1Range(w1)
    IN  Flatten([j \in 1..Len(s1s) |-> SplitAt(w1, s1s[j], h)])

SplitCandidates(h) ==
    LET sizes == Window1Sizes(h)
    IN  Flatten([i \in 1..Len(sizes) |-> SplitOfSize(sizes[i], h)])

\* Every candidate the two loops evaluate, in the order they evaluate it.
Candidates(h) == SingleCandidates(h) \o SplitCandidates(h)

\* Sum of the prices a candidate covers, as the code adds them up.
TotalPriceFirstWindow(night, cand) == Sum(Slice(night, cand[1][1], cand[1][2]))

TotalPrice(night, cand) ==
    IF Len(cand) = 1
    THEN Sum(Slice(night, cand[1][1], cand[1][2]))
    ELSE FAdd(Sum(Slice(night, cand[1][1], cand[1][2])),
              Sum(Slice(night, cand[2][1], cand[2][2])))

MeanPrice(night, cand, h) == FDiv(TotalPrice(night, cand), h)

\* if mean_price < min_mean
ImprovesOrTies(mean_price, min_mean) == mean_price <= min_mean

Improves(mean_price, min_mean) == mean_price < min_mean

(***************************************************************************)
(* EnergyStorageOptimizer.is_charging_profitable                           *)
(***************************************************************************)
NightAverage(daily_prices) ==
    FDiv(Sum(Slice(daily_prices, 0, NIGHT_HOURS)), Len(Slice(daily_prices, 0, NIGHT_HOURS)))

DailyAverage(daily_prices) == FDiv(Sum(daily_prices), Len(daily_prices))

IsChargingProfitable(mean_charge_price, daily_prices, price_multiplier) ==
    FMul(mean_charge_price, price_multiplier) <= DailyAverage(daily_prices)

(***************************************************************************)
(* The command optimize_charging_schedule builds.                          *)
(***************************************************************************)
Command(should_charge, t1, t2, t3, t4) ==
    [should_charge |-> should_charge, start_time1 |-> t1, end_time1 |-> t2,
     start_time2 |-> t3, end_time2 |-> t4]

DisabledCommand == Command(FALSE, MIDNIGHT, MIDNIGHT, MIDNIGHT, MIDNIGHT)

SecondSlotMidnight(ws) == << MIDNIGHT, MIDNIGHT >>

SecondSlot(ws) ==
    IF Len(ws) > 1
    THEN << HourString(ws[2][1]), HourString(ws[2][2]) >>
    ELSE << MIDNIGHT, MIDNIGHT >>

EnabledCommand(ws) ==
    Command(TRUE, HourString(ws[1][1]), HourString(ws[1][2]),
            SecondSlot(ws)[1], SecondSlot(ws)[2])

ScheduleCommand(ws, is_profitable) ==
    IF ~is_profitable THEN DisabledCommand ELSE EnabledCommand(ws)

(***************************************************************************)
(* Inputs.  The configuration is read-only; price_multiplier is drawn      *)
(* where the code first reads it.                                          *)
(***************************************************************************)
\* 9.9375 and 19.9375
PriceValues == {(159 * One) \div 16, (319 * One) \div 16}

\* [10, 100, 10, 100, 10, 100, 10]
ScenarioPrices == [i \in 1..NIGHT_HOURS |-> IF i % 2 = 1 THEN 10 * One ELSE 100 * One]

PriceSeries ==
    UNION {[1..n -> PriceValues] : n \in NIGHT_HOURS..MaxLen} \cup {ScenarioPrices}

ChargeHours == (-NegHours)..MaxHours

\* 1.0 and 1.5
Multipliers == {One, One + One \div 2}

FailureKinds == {"HTTPStatusError401", "HTTPStatusError", "Exception"}

(***************************************************************************)
(* State.                                                                  *)
(***************************************************************************)
VARIABLES
    prices,       \* the series price_fetcher returned
    hours,        \* config["charge_to_full"]
    multiplier,   \* config["price_multiplier"] as is_charging_profitable read it
    pc,           \* position in optimize_charging_schedule
    pending,      \* candidates the two loops have still to evaluate, in order
    best_windows, \* best_windows of find_optimal_charging_windows
    min_mean,     \* min_mean of find_optimal_charging_windows
    error,        \* exception that left optimize_charging_schedule, or "none"
    evaluated,    \* candidates evaluated by find_optimal_charging_windows
    profitable,   \* result of is_charging_profitable
    commands,     \* calls of manager.set_charging_schedule, in order
    outcomes,     \* outcome of each updateChargeConfigInfo call, in order
    closes,       \* number of client.close() calls
    result        \* return value of set_charging_schedule

vars == << prices, hours, multiplier, pc, pending, best_windows, min_mean, error,
           evaluated, profitable, commands, outcomes, closes, result >>

searchVars == << pending, best_windows, min_mean, error, evaluated >>

optimizerVars == << searchVars, profitable >>

inputVars == << prices, hours >>

managerVars == << outcomes, closes, result >>

Init ==
    /\ prices \in PriceSeries
    /\ hours \in ChargeHours
    /\ multiplier = 0
    /\ pc = "find"
    /\ pending = << >>
    /\ best_windows = << >>
    /\ min_mean = Inf
    /\ error = "none"
    /\ evaluated = 0
    /\ profitable = FALSE
    /\ commands = << >>
    /\ outcomes = << >>
    /\ closes = 0
    /\ result = "none"

(***************************************************************************)
(* optimize_charging_schedule                                              *)
(***************************************************************************)
\* find_optimal_charging_windows is entered: the guard raises, or the locals
\* are initialised.  The bounds of both loops depend on hours_to_charge
\* alone, so the candidates they will visit are fixed here.
EnterFind ==
    /\ pc = "find"
    /\ IF ExceedsNight(hours)
       THEN /\ error' = "ValueError"
            /\ pc' = "raised"
            /\ pending' = << >>
       ELSE /\ error' = "none"
            /\ pc' = "search"
            /\ pending' = Candidates(hours)
    /\ best_windows' = << >>
    /\ min_mean' = Inf
    /\ UNCHANGED << inputVars, multiplier, evaluated, profitable, commands,
                    managerVars >>

\* One iteration of either loop: the mean of the next candidate, and the
\* update of the running minimum.  Dividing by hours_to_charge = 0 raises.
EvaluateCandidate ==
    /\ pc = "search"
    /\ pending # << >>
    /\ evaluated' = evaluated + 1
    /\ pending' = Tail(pending)
    /\ IF hours = 0
       THEN /\ error' = "ZeroDivisionError"
            /\ pc' = "raised"
            /\ UNCHANGED << best_windows, min_mean >>
       ELSE LET mean_price == MeanPrice(NightPrices(prices), Head(pending), hours)
            IN  /\ IF Improves(mean_price, min_mean)
                   THEN /\ min_mean' = mean_price
                        /\ best_windows' = Head(pending)
                   ELSE UNCHANGED << best_windows, min_mean >>
                /\ UNCHANGED << error, pc >>
    /\ UNCHANGED << inputVars, multiplier, profitable, commands, managerVars >>

\* Both loops are done: return best_windows, min_mean.
ReturnWindows ==
    /\ pc = "search"
    /\ pending = << >>
    /\ pc' = "profit"
    /\ UNCHANGED << inputVars, multiplier, searchVars, profitable, commands,
                    managerVars >>

\* self.is_charging_profitable(mean_price, prices)
CheckProfitable ==
    /\ pc = "profit"
    /\ \E m \in Multipliers :
           /\ multiplier' = m
           /\ profitable' = IsChargingProfitable(min_mean, prices, m)
    /\ pc' = "dispatch"
    /\ UNCHANGED << inputVars, searchVars, commands, managerVars >>

\* await self.manager.set_charging_schedule(...): the call is entered.
Dispatch ==
    /\ pc = "dispatch"
    /\ commands' = Append(commands, ScheduleCommand(best_windows, profitable))
    /\ pc' = "send"
    /\ UNCHANGED << inputVars, multiplier, optimizerVars, managerVars >>

(***************************************************************************)
(* AlphaESSManager.set_charging_schedule                                   *)
(***************************************************************************)
\* for attempt in range(3)
MoreAttemptsOffByOne(n) == n < MAX_ATTEMPTS + 1

MoreAttempts(n) == n < MAX_ATTEMPTS

\* updateChargeConfigInfo returns: log, close the client, return True.
UpdateSucceeds ==
    /\ pc = "send"
    /\ MoreAttempts(Len(outcomes))
    /\ outcomes' = Append(outcomes, "ok")
    /\ closes' = closes + 1
    /\ result' = "True"
    /\ pc' = "done"
    /\ UNCHANGED << inputVars, multiplier, optimizerVars, commands >>

\* updateChargeConfigInfo raises: log and go round the loop.
UpdateFails ==
    /\ pc = "send"
    /\ MoreAttempts(Len(outcomes))
    /\ \E kind \in FailureKinds : outcomes' = Append(outcomes, kind)
    /\ UNCHANGED << inputVars, multiplier, optimizerVars, commands, pc, closes,
                    result >>

\* The loop is exhausted: log, close the client, return False.
GiveUp ==
    /\ pc = "send"
    /\ ~MoreAttempts(Len(outcomes))
    /\ closes' = closes + 1
    /\ result' = "False"
    /\ pc' = "done"
    /\ UNCHANGED << inputVars, multiplier, optimizerVars, commands, outcomes >>

ManagerNext == UpdateSucceeds \/ UpdateFails \/ GiveUp

Next == EnterFind \/ EvaluateCandidate \/ ReturnWindows \/ CheckProfitable \/ Dispatch \/ ManagerNext

Spec == Init /\ [][Next]_vars

(***************************************************************************)
(* set_charging_schedule on its own: called with any command; every        *)
(* awaited call eventually returns or raises, so the loop keeps stepping.  *)
(***************************************************************************)
ManagerWindows == {<< << s, e >> >> : s \in 0..2, e \in 1..NIGHT_HOURS}

ManagerCommands == {DisabledCommand} \cup {EnabledCommand(ws) : ws \in ManagerWindows}

InitManager ==
    /\ prices = << >>
    /\ hours = 0
    /\ multiplier = 0
    /\ pc = "send"
    /\ pending = << >>
    /\ best_windows = << >>
    /\ min_mean = Inf
    /\ error = "none"
    /\ evaluated = 0
    /\ profitable = FALSE
    /\ \E c \in ManagerCommands : commands = << c >>
    /\ outcomes = << >>
    /\ closes = 0
    /\ result = "none"

SpecManager == InitManager /\ [][ManagerNext]_vars /\ WF_vars(ManagerNext)

(***************************************************************************)
(* Properties of find_optimal_charging_windows.                            *)
(***************************************************************************)
\* find_optimal_charging_windows has just returned.
JustReturned == pc = "profit"

ValidHours == hours \in 1..NIGHT_HOURS

\* The first NIGHT_HOURS prices.
Night == SubSeq(prices, 1, NIGHT_HOURS)

\* Every placement of h hours inside the night: one block, or two blocks of
\* sizes (w1, h - w1) with the first ending no later than the second starts.
SinglePlacements(h) == {<< << s, s + h >> >> : s \in 0..(NIGHT_HOURS - h)}

SplitPlacements(h) ==
    {<< << s1, s1 + w1 >>, << s2, s2 + (h - w1) >> >> :
        << w1, s1, s2 >> \in
            {t \in (1..(h - 1)) \X (0..NIGHT_HOURS) \X (0..NIGHT_HOURS) :
                t[2] + t[1] <= t[3] /\ t[3] + (h - t[1]) <= NIGHT_HOURS}}

Placements(h) == SinglePlacements(h) \cup SplitPlacements(h)

WindowLength(w) == w[2] - w[1]

CoveredHours(ws) ==
    IF Len(ws) = 1 THEN WindowLength(ws[1])
    ELSE WindowLength(ws[1]) + WindowLength(ws[2])

\* A Schedule for h hours: one or two windows inside [0, 7], each of positive
\* length, sorted and non-overlapping, covering h hours.
WellFormed(ws, h) ==
    /\ Len(ws) \in {1, 2}
    /\ \A i \in 1..Len(ws) :
          /\ 0 <= ws[i][1]
          /\ ws[i][1] < ws[i][2]
          /\ ws[i][2] <= NIGHT_HOURS
    /\ Len(ws) = 2 =>
          /\ ws[1][1] < ws[2][1]
          /\ ws[1][2] <= ws[2][1]
    /\ CoveredHours(ws) = h

\* C1: for chargeHours in 1..7 the result is one or two windows (start, end)
\* with 0 <= start < end <= 7, sorted by start, the first ending no later
\* than the second starts, and lengths summing to chargeHours.
C1_WindowsWellFormed ==
    (JustReturned /\ ValidHours) => WellFormed(best_windows, hours)

\* A split with a gap between its two windows was returned.
C1_Witness ==
    /\ JustReturned /\ ValidHours
    /\ Len(best_windows) = 2
    /\ best_windows[1][2] < best_windows[2][1]

\* C2: the returned mean is the least mean over every single block and every
\* pair of non-overlapping blocks, it is the mean of the returned windows,
\* and it does not exceed the mean of the block at offset 0.
C2_MinimumMean ==
    (JustReturned /\ ValidHours) =>
        LET means == {MeanPrice(Night, c, hours) : c \in Placements(hours)}
        IN  /\ min_mean \in means
            /\ \A m \in means : min_mean <= m
            /\ min_mean = MeanPrice(Night, best_windows, hours)
            /\ min_mean <= MeanPrice(Night, << << 0, hours >> >>, hours)

\* A split was returned that is strictly cheaper than every single block.
C2_Witness ==
    /\ JustReturned /\ ValidHours
    /\ Len(best_windows) = 2
    /\ \A c \in SinglePlacements(hours) : min_mean < MeanPrice(Night, c, hours)

\* Enumeration order: single blocks by start, then splits by (w1, s1, s2).
Before(c1, c2) ==
    IF Len(c1) = 1
    THEN Len(c2) = 2 \/ c1[1][1] < c2[1][1]
    ELSE /\ Len(c2) = 2
         /\ \/ WindowLength(c1[1]) < WindowLength(c2[1])
            \/ /\ WindowLength(c1[1]) = WindowLength(c2[1])
               /\ c1[1][1] < c2[1][1]
            \/ /\ WindowLength(c1[1]) = WindowLength(c2[1])
               /\ c1[1][1] = c2[1][1]
               /\ c1[2][1] < c2[2][1]

Attaining == {c \in Placements(hours) : MeanPrice(Night, c, hours) = min_mean}

\* C3: among the candidates attaining the minimum mean the first in
\* enumeration order is returned; a single block is returned whenever some
\* single block attains the minimum.
C3_EarliestMinimum ==
    (JustReturned /\ ValidHours) =>
        /\ best_windows \in Attaining
        /\ \A c \in Attaining \ {best_windows} : Before(best_windows, c)
        /\ (\E c \in Attaining : Len(c) = 1) => Len(best_windows) = 1

\* A single block was returned although a later single block and a split
\* attain the same mean.
C3_Witness ==
    /\ JustReturned /\ ValidHours
    /\ Len(best_windows) = 1
    /\ \E c \in Attaining : Len(c) = 1 /\ c # best_windows
    /\ \E c \in Attaining : Len(c) = 2

\* C4 (as claimed): with chargeHours = 7 the result is the one window (0, 7).
C4_WholeNightOneWindow ==
    (JustReturned /\ hours = NIGHT_HOURS) =>
        best_windows = << << 0, NIGHT_HOURS >> >>

Scenario == JustReturned /\ prices = ScenarioPrices /\ hours = 3

\* C5 (as claimed): on [10, 100, 10, 100, 10, 100, 10] with chargeHours = 3
\* the result is the three 1-hour slots at 0, 2 and 4 with mean 10.0.
C5_ThreeSlots ==
    Scenario =>
        /\ best_windows = << << 0, 1 >>, << 2, 3 >>, << 4, 5 >> >>
        /\ min_mean = 10 * One

\* C5 (amended): on that input the result is the single window (0, 3) with
\* mean 40.0, and no placement of at most two blocks has a lower mean.
C5_ScenarioContiguousBlock ==
    Scenario =>
        /\ best_windows = << << 0, 3 >> >>
        /\ min_mean = 40 * One
        /\ \A c \in Placements(3) : MeanPrice(Night, c, 3) >= 40 * One

\* The scenario was run and a split ties with the returned block.
C5_Witness ==
    /\ Scenario
    /\ Len(best_windows) = 1
    /\ \E c \in SplitPlacements(3) : MeanPrice(Night, c, 3) = min_mean

(***************************************************************************)
(* Rejected configurations.                                                *)
(***************************************************************************)
\* C6: chargeHours > 7 raises ValueError before any candidate is evaluated;
\* nothing is returned and no command is sent.
C6_TooManyHoursRejected ==
    (pc # "find" /\ hours > NIGHT_HOURS) =>
        /\ pc = "raised"
        /\ error = "ValueError"
        /\ evaluated = 0
        /\ best_windows = << >>
        /\ commands = << >>

C6_Witness == pc = "raised" /\ hours = NIGHT_HOURS + 1 /\ error = "ValueError"

\* C7 (as claimed): a call ends either with a well-formed Schedule or with
\* ValueError before any candidate is evaluated, and chargeHours <= 0 ends
\* with ValueError.
C7_NonPositiveHoursRejected ==
    /\ JustReturned => WellFormed(best_windows, hours)
    /\ pc = "raised" => (error = "ValueError" /\ evaluated = 0)
    /\ (hours <= 0 /\ pc \in {"raised", "profit"}) => error = "ValueError"

(***************************************************************************)
(* is_charging_profitable and the command.                                 *)
(***************************************************************************)
\* C8: the decision is true iff meanChargePrice * priceMultiplier is at most
\* the average of the whole daily series.
C8_ProfitableIffWithinDailyAverage ==
    pc = "dispatch" =>
        (profitable <=>
            FMul(min_mean, multiplier) <= FDiv(Sum(prices), Len(prices)))

\* Charging is profitable against the whole day but would not be against
\* the average of the first 7 hours.
C8_Witness ==
    /\ pc = "dispatch"
    /\ Len(prices) > NIGHT_HOURS
    /\ profitable
    /\ FMul(min_mean, multiplier) > FDiv(Sum(Night), NIGHT_HOURS)

HourTable ==
    << "00:00", "01:00", "02:00", "03:00", "04:00", "05:00", "06:00", "07:00" >>

\* C9: exactly one command reaches the scheduler; disabled with four "00:00"
\* when not profitable, otherwise enabled with the first window as HH:00 in
\* the first slot pair and the second window, or "00:00", "00:00", in the
\* second.
C9_OneCommand ==
    /\ pc \in {"find", "search", "raised", "profit", "dispatch"} => commands = << >>
    /\ pc \in {"send", "done"} =>
          /\ Len(commands) = 1
          /\ ~profitable =>
                commands[1] = [should_charge |-> FALSE,
                               start_time1 |-> "00:00", end_time1 |-> "00:00",
                               start_time2 |-> "00:00", end_time2 |-> "00:00"]
          /\ profitable => commands[1].should_charge
          /\ (profitable /\ ValidHours) =>
                /\ commands[1].start_time1 = HourTable[best_windows[1][1] + 1]
                /\ commands[1].end_time1 = HourTable[best_windows[1][2] + 1]
                /\ Len(best_windows) = 2 =>
                      /\ commands[1].start_time2 = HourTable[best_windows[2][1] + 1]
                      /\ commands[1].end_time2 = HourTable[best_windows[2][2] + 1]
                /\ Len(best_windows) = 1 =>
                      /\ commands[1].start_time2 = "00:00"
                      /\ commands[1].end_time2 = "00:00"

\* A profitable two-window schedule was handed over.
C9_Witness ==
    /\ pc = "send"
    /\ profitable /\ ValidHours
    /\ Len(best_windows) = 2
    /\ Len(commands) = 1

(***************************************************************************)
(* set_charging_schedule.                                                  *)
(***************************************************************************)
Succeeded == \E i \in 1..Len(outcomes) : outcomes[i] = "ok"

RetrySafe ==
    /\ Len(outcomes) <= 3
    /\ \A i \in 1..(Len(outcomes) - 1) : outcomes[i] # "ok"
    /\ (result = "True") <=> Succeeded
    /\ (result = "False") => (Len(outcomes) = 3 /\ ~Succeeded)
    /\ closes = IF pc = "done" THEN 1 ELSE 0
    /\ pc = "done" => result \in {"True", "False"}

====
